---- MODULE Spec2Model ----
(***************************************************************************)
(* Specific Affinity: the entity-resolution pipeline of src/python.        *)
(*                                                                         *)
(* The DuckDB database is the variable db, a record of tables; every       *)
(* pipeline function of prime_table.py, inference.py and cleanup.py is an  *)
(* operator from a database to the database it leaves behind, and the      *)
(* methods of SpecificAffinity (main.py) are the actions.                  *)
(*                                                                         *)
(* Conventions.                                                            *)
(*  - A text is a sequence of one-character strings; SQL NULL is Null.     *)
(*  - Record ids are VARCHAR in the examples and only compared; they are   *)
(*    modelled by naturals >= 1 with the same total order.                 *)
(*  - A cluster_id is NullId (SQL NULL), a record id, or NewId(k) for the  *)
(*    string 'NEW_k'; record ids never start with 'NEW_'.                  *)
(*  - Weights and scores are fixed point, in units of 1/Scale.             *)
(***************************************************************************)
EXTENDS Integers, Sequences, FiniteSets, TLC

----------------------------------------------------------------------------
(* Bounds of the model *)

\* source rows have ids 1..MaxSrc
MaxSrc == 3
\* a new-record table has MaxNew rows, with ids MaxSrc .. MaxSrc+MaxNew-1:
\* the first is also an id of the source table, the others are not
MaxNew == 3

SrcIds == 1..MaxSrc
NewIds == MaxSrc..(MaxSrc + MaxNew - 1)

----------------------------------------------------------------------------
(* Values *)

Null == <<"NULL">>
NullId == 0
\* 'NEW_' || k  (cleanup.py:220); NewBase separates the namespace
NewBase == 1000
NewId(k) == NewBase + k
IsNewId(c) == c > NewBase

\* ROUND(x, 4): four decimals
Scale == 10000

\* texts of the source table and of new-record tables
T_ac == <<"a", "a", " ", "c", "c">>
T_abc == <<"a", "a", " ", "b", "b", " ", "c", "c">>
T_bc == <<"b", "b", " ", "c", "c">>
T_c == <<"C", "C", ".">>
SrcTexts == {Null, T_ac, T_abc, T_bc}
LifeTexts == {T_ac, T_c}
NewTexts == {T_ac, T_c, Null}
\* a text of no token: a stop word and punctuation
T_none == <<"a", " ", ".">>
MatchTexts == {T_ac, T_none}
\* a text that is empty after trimming
T_blank == <<" ", " ">>
EdgeTexts == {T_ac, T_c, T_none, T_blank}
EdgeNewTexts == {T_ac, T_none, T_blank, Null}
\* a text of two tab characters
T_tab == <<"\t", "\t">>
\* a text that repeats a token
T_aac == <<"a", "a", " ", "a", "a", " ", "c", "c">>
RepeatTexts == {T_ac, T_aac}
\* the words a caller adds to the stop words
AddedStopWords == {<<"a", "a">>}
\* two tokens with a tab between them
T_atc == <<"a", "a", "\t", "c", "c">>
TabTexts == {T_ac, T_c, T_tab, T_atc}
TabNewTexts == {T_ac, T_tab, T_blank, T_none}
\* texts whose pairs reach different scores below 1
T_abc0 == <<"a", "a", " ", "b", "b", " ", "c", "c", " ", "0", "0">>
T_aboc == <<"a", "a", " ", "b", "b", " ", "o", "o", " ", "c", "c">>
T_oc == <<"o", "o", " ", "c", "c">>
RaiseTexts == {T_abc0, T_aboc, T_oc, T_ac}

\* thresholds a caller configures (0.3, 1.0)
Thresholds == {3000, 10000}
\* thresholds of a caller who raises the threshold step by step
RaisedThresholds == {2000, 3000, 5000, 10000}

\* similarity_threshold and min_token_length values given to the constructor
\* or to set_threshold, the ones outside (0, 1] and below 1 included
ConfigThresholds == {0, 3000, 15000}
ConfigTokenLengths == {0, 2}

\* DEFAULT_STOP_WORDS, the words that the model's alphabet can spell
DEFAULT_STOP_WORDS == {<<"a">>, <<"c", "o">>}

----------------------------------------------------------------------------
(* Normalizer: the SQL expressions shared by the three tokenizers *)

Letters == {"a", "b", "c", "o", "A", "B", "C", "O"}
Digits == {"0", "1"}
WhitespaceChars == {" ", "\t", "\n"}

LOWER(c) ==
    CASE c = "A" -> "a" [] c = "B" -> "b" [] c = "C" -> "c" [] c = "O" -> "o"
      [] OTHER -> c

\* regexp_replace(LOWER(text), '[^a-zA-Z0-9\s]', ' ', 'g')
regexp_replace(text) ==
    [i \in 1..Len(text) |->
        IF LOWER(text[i]) \in Letters \cup Digits \cup WhitespaceChars
        THEN LOWER(text[i]) ELSE " "]

\* text IS NOT NULL AND LENGTH(TRIM(text)) > 0   (TRIM strips spaces)
IsIndexable(text) == text # Null /\ \E i \in 1..Len(text) : text[i] # " "

\* string_split(s, ' '): the pieces between single spaces, empty ones included
string_split(s) ==
    LET B == {0, Len(s) + 1} \cup {i \in 1..Len(s) : s[i] = " "}
    IN  {SubSeq(s, p[1] + 1, p[2] - 1) :
            p \in {q \in B \X B : /\ q[1] < q[2]
                                  /\ ~\E k \in B : q[1] < k /\ k < q[2]}}

\* unnest(string_split(normalized_text, ' ')) for every text of the model,
\* computed once
AllTexts ==
    (SrcTexts \cup LifeTexts \cup NewTexts \cup MatchTexts \cup RaiseTexts
        \cup EdgeTexts \cup EdgeNewTexts \cup TabTexts \cup TabNewTexts
        \cup RepeatTexts) \ {Null}
tokenized == [t \in AllTexts |-> string_split(regexp_replace(t))]

\* WHERE token IS NOT NULL AND LENGTH(token) >= min_token_length
\*       AND token NOT IN (SELECT word FROM stop_words)
sql_tokens(text, min_token_length, stop_words) ==
    {t \in tokenized[text] :
        Len(t) >= min_token_length /\ t \notin stop_words}

----------------------------------------------------------------------------
(* Arithmetic helpers *)

RECURSIVE SumOver(_, _)
SumOver(S, f) ==
    IF S = {} THEN 0
    ELSE LET x == CHOOSE y \in S : TRUE IN f[x] + SumOver(S \ {x}, f)

MinOf(S) == CHOOSE x \in S : \A y \in S : x <= y
MaxOf(S) == CHOOSE x \in S : \A y \in S : x >= y
LEAST(a, b) == IF a <= b THEN a ELSE b

\* ROUND(num / den, 4) in units of 1/Scale, half up; the division is done in
\* two steps of 100 so that every intermediate value fits 32 bits
ROUND4(num, den) ==
    LET x == num * 100
    IN  (x \div den) * 100 + (((x % den) * 100 + (den \div 2)) \div den)

\* LN(n) for n = 1..8, in millionths
LnMicro == <<0, 693147, 1098612, 1386294, 1609438, 1791759, 1945910, 2079442>>

----------------------------------------------------------------------------
(* Step 1: prime_table.py *)

create_stop_words_table(d, cfg) ==
    [d EXCEPT !.stop_words = cfg.stop_words,
              !.exists = @ \cup {"stop_words"}]

\* normalized_text view + blocking keys table
blocking_keys_of(rows, cfg, stop_words) ==
    UNION {{[record_id |-> r, token |-> t] :
                t \in sql_tokens(rows[r], cfg.min_token_length, stop_words)} :
            r \in {x \in DOMAIN rows : IsIndexable(rows[x])}}

\* an incremental build: the records that a previous run clustered are not
\* indexed again
create_blocking_keys_incremental(d, cfg, src) ==
    LET done == {p.id : p \in {x \in d.prime : x.cluster_id # NullId}}
        todo == [r \in DOMAIN src \ done |-> src[r]]
    IN  [d EXCEPT !.blocking_keys = blocking_keys_of(todo, cfg, d.stop_words),
                  !.exists = @ \cup {"blocking_keys"}]

create_blocking_keys(d, cfg, src) ==
    [d EXCEPT !.blocking_keys = blocking_keys_of(src, cfg, d.stop_words),
              !.exists = @ \cup {"blocking_keys"}]

\* The weights query over a blocking-keys table.  LN(weight) is
\* LN(avg) + LN(total_records) - LN(freq); the first two terms are the same
\* for every token and cancel in the min-max normalisation, so log_weight is
\* kept as -LN(freq).
\* (log_weight - MAX(log_weight) OVER()) / ...: MAX taken for MIN
weights_of_from_max(bk) ==
    LET tokens == {k.token : k \in bk}
        freq(t) == Cardinality({k \in bk : k.token = t})
        logged == {t \in tokens : t # <<>>}
        log_weight(t) == 0 - LnMicro[freq(t)]
        lo == MinOf({log_weight(t) : t \in logged})
        hi == MaxOf({log_weight(t) : t \in logged})
        den == hi - lo
    IN  IF logged = {} \/ den = 0
        THEN <<>>
        ELSE [t \in logged |-> 0 - ROUND4(hi - log_weight(t), den)]

\* (MAX(log_weight) OVER() - log_weight) / ...: the sign of the numerator
\* turned, so that the weight grows with the frequency
weights_of_by_frequency(bk) ==
    LET tokens == {k.token : k \in bk}
        freq(t) == Cardinality({k \in bk : k.token = t})
        logged == {t \in tokens : t # <<>>}
        log_weight(t) == 0 - LnMicro[freq(t)]
        lo == MinOf({log_weight(t) : t \in logged})
        hi == MaxOf({log_weight(t) : t \in logged})
        den == hi - lo
    IN  IF logged = {} \/ den = 0
        THEN <<>>
        ELSE [t \in logged |-> ROUND4(hi - log_weight(t), den)]

weights_of(bk) ==
    LET tokens == {k.token : k \in bk}
        freq(t) == Cardinality({k \in bk : k.token = t})
        logged == {t \in tokens : t # <<>>}
        log_weight(t) == 0 - LnMicro[freq(t)]
        lo == MinOf({log_weight(t) : t \in logged})
        hi == MaxOf({log_weight(t) : t \in logged})
        den == hi - lo
    IN  IF logged = {} \/ den = 0
        THEN <<>>
        ELSE [t \in logged |->
                ROUND4(log_weight(t) - lo, den)]

calculate_weights(d, cfg) ==
    [d EXCEPT !.weights = weights_of(d.blocking_keys),
              !.exists = @ \cup {"weights"}]

\* self-join of a blocking-keys table with a weights table
\* the self-join without WHERE bk1.record_id < bk2.record_id
pairs_of_any_order(bk, tw) ==
    LET toks(r) == {k.token : k \in {x \in bk : x.record_id = r}}
        ids == {k.record_id : k \in bk}
        shared(p) == (toks(p[1]) \cap toks(p[2])) \cap DOMAIN tw
        P == {p \in ids \X ids : shared(p) # {}}
    IN  [p \in P |-> SumOver(shared(p), tw)]

pairs_of(bk, tw) ==
    LET toks(r) == {k.token : k \in {x \in bk : x.record_id = r}}
        ids == {k.record_id : k \in bk}
        shared(p) == (toks(p[1]) \cap toks(p[2])) \cap DOMAIN tw
        P == {p \in ids \X ids : p[1] < p[2] /\ shared(p) # {}}
    IN  [p \in P |-> SumOver(shared(p), tw)]

find_candidate_pairs(d, cfg) ==
    [d EXCEPT !.candidate_pairs = pairs_of(d.blocking_keys, d.weights),
              !.exists = @ \cup {"candidate_pairs"}]

\* WHERE similarity_score <= threshold: the comparison the wrong way round
filtered_of_below(cp, similarity_threshold) ==
    {p \in DOMAIN cp : cp[p] <= similarity_threshold}

filtered_of(cp, similarity_threshold) ==
    {p \in DOMAIN cp : cp[p] >= similarity_threshold}

filter_by_threshold(d, cfg) ==
    [d EXCEPT !.filtered_pairs =
                  filtered_of(d.candidate_pairs, cfg.similarity_threshold),
              !.exists = @ \cup {"filtered_pairs"}]

\* The recursive view connected_components, read as the least set of rows
\* closed under its four SELECTs (UNION keeps no duplicates).
\* the second SELECT of the base case labels record_id_2 with record_id_1
cc_base_labelled_by_first(fp) ==
    {[node |-> p[1], cluster_id |-> p[1]] : p \in fp}
    \cup {[node |-> p[2], cluster_id |-> p[1]] : p \in fp}

cc_base(fp) ==
    {[node |-> p[1], cluster_id |-> p[1]] : p \in fp}
    \cup {[node |-> p[2], cluster_id |-> p[2]] : p \in fp}

cc_step(cc, fp) ==
    {[node |-> x[2][2], cluster_id |-> LEAST(x[1].cluster_id, x[2][2])] :
        x \in {y \in cc \X fp :
                 /\ y[1].node = y[2][1]
                 /\ y[1].cluster_id # LEAST(y[1].cluster_id, y[2][2])}}
    \cup
    {[node |-> x[2][1], cluster_id |-> LEAST(x[1].cluster_id, x[2][1])] :
        x \in {y \in cc \X fp :
                 /\ y[1].node = y[2][2]
                 /\ y[1].cluster_id # LEAST(y[1].cluster_id, y[2][1])}}

RECURSIVE cc_fix(_, _)
cc_fix(cc, fp) ==
    LET next == cc \cup cc_step(cc, fp)
    IN  IF next = cc THEN cc ELSE cc_fix(next, fp)

\* SELECT node AS record_id, MIN(cluster_id) ... GROUP BY node
components_of(fp) ==
    LET cc == cc_fix(cc_base(fp), fp)
    IN  {[record_id |-> n,
          cluster_id |-> MinOf({c.cluster_id : c \in {x \in cc : x.node = n}})] :
            n \in {c.node : c \in cc}}

identify_connected_components(d, cfg) ==
    [d EXCEPT !.clusters = components_of(d.filtered_pairs),
              !.exists = @ \cup {"clusters"}]

\* source s LEFT JOIN clusters rc ON s.id = rc.record_id
create_prime_table(d, cfg, src) ==
    [d EXCEPT !.prime =
                  UNION {LET rc == {c \in d.clusters : c.record_id = r}
                         IN  IF rc = {}
                             THEN {[id |-> r, text |-> src[r], cluster_id |-> NullId]}
                             ELSE {[id |-> r, text |-> src[r],
                                    cluster_id |-> c.cluster_id] : c \in rc} :
                         r \in DOMAIN src},
              !.exists = @ \cup {"prime"}]

\* AVG over no row is NULL (None in the returned dictionary)
NullAvg == 0 - 1

\* ROUND(AVG(cluster_size), 2) over the groups of a set of prime rows, in
\* hundredths
avg_cluster_size_of(rows) ==
    LET groups == {p.cluster_id : p \in rows}
        n == Cardinality(rows)
        k == Cardinality(groups)
    IN  IF k = 0 THEN NullAvg ELSE (2 * 100 * n + k) \div (2 * k)

\* the average taken without WHERE cluster_id IS NOT NULL: the unclustered
\* rows count as one more group
get_summary_stats_with_null_group(d, cfg) ==
    [total_clusters |->
         Cardinality({p.cluster_id : p \in d.prime} \ {NullId}),
     total_records |-> Cardinality(d.prime),
     clustered_records |->
         Cardinality({p \in d.prime : p.cluster_id # NullId}),
     unclustered_records |->
         Cardinality({p \in d.prime : p.cluster_id = NullId}),
     avg_cluster_size |-> avg_cluster_size_of(d.prime)]

\* COUNT(DISTINCT cluster_id), COUNT(*), COUNT(*) FILTER (...), and the
\* average size of the groups WHERE cluster_id IS NOT NULL
get_summary_stats(d, cfg) ==
    [total_clusters |->
         Cardinality({p.cluster_id : p \in d.prime} \ {NullId}),
     total_records |-> Cardinality(d.prime),
     clustered_records |->
         Cardinality({p \in d.prime : p.cluster_id # NullId}),
     unclustered_records |->
         Cardinality({p \in d.prime : p.cluster_id = NullId}),
     avg_cluster_size |->
         avg_cluster_size_of({p \in d.prime : p.cluster_id # NullId})]

run_step_1(d, cfg, src) ==
    LET d1 == create_stop_words_table(d, cfg)
        d2 == create_blocking_keys(d1, cfg, src)
        d3 == calculate_weights(d2, cfg)
        d4 == find_candidate_pairs(d3, cfg)
        d5 == filter_by_threshold(d4, cfg)
        d6 == identify_connected_components(d5, cfg)
    IN  create_prime_table(d6, cfg, src)

\* The same run with the orders the engine is free to choose made explicit:
\* rows lists the ids of the source table in the order they are scanned, and
\* edges lists the rows of filtered_pairs in the order the recursive view
\* joins them.
Perms(S) ==
    {f \in [1..Cardinality(S) -> S] : \A i, j \in DOMAIN f : f[i] = f[j] => i = j}

\* the listings of filtered_pairs tried: the rows in ascending and in
\* descending order, each started at every row (every listing, up to 3 rows)
PairLess(p, q) == p[1] < q[1] \/ (p[1] = q[1] /\ p[2] < q[2])

RECURSIVE Ascending(_)
Ascending(S) ==
    IF S = {} THEN <<>>
    ELSE LET m == CHOOSE x \in S : \A y \in S \ {x} : PairLess(x, y)
         IN  <<m>> \o Ascending(S \ {m})

Reversed(seq) == [i \in DOMAIN seq |-> seq[Len(seq) + 1 - i]]
Rotated(seq, k) == [i \in DOMAIN seq |-> seq[((i + k - 1) % Len(seq)) + 1]]

EdgeOrders(fp) ==
    IF fp = {} THEN {<<>>}
    ELSE {Rotated(Ascending(fp), k) : k \in 0..(Cardinality(fp) - 1)}
         \cup {Rotated(Reversed(Ascending(fp)), k) : k \in 0..(Cardinality(fp) - 1)}

\* the key of a scanned row is the position of its row, not its id
scanned_source_by_position(src, rows) ==
    [i \in DOMAIN rows |-> src[rows[i]]]

\* SELECT id AS record_id, ... FROM source: the key of a scanned row is its id
scanned_source(src, rows) ==
    [r \in {rows[i] : i \in DOMAIN rows} |-> src[r]]

\* one round of the recursive SELECTs, one row of filtered_pairs after another
RECURSIVE cc_pass(_, _, _)
cc_pass(cc, edges, i) ==
    IF i > Len(edges) THEN cc
    ELSE cc_pass(cc \cup cc_step(cc, {edges[i]}), edges, i + 1)

RECURSIVE cc_fix_in_order(_, _)
cc_fix_in_order(cc, edges) ==
    LET next == cc_pass(cc, edges, 1)
    IN  IF next = cc THEN cc ELSE cc_fix_in_order(next, edges)

components_in_order(edges) ==
    LET fp == {edges[i] : i \in DOMAIN edges}
        cc == cc_fix_in_order(cc_base(fp), edges)
    IN  {[record_id |-> n,
          cluster_id |-> MinOf({c.cluster_id : c \in {x \in cc : x.node = n}})] :
            n \in {c.node : c \in cc}}

\* run_step_1 up to filter_by_threshold
run_step_1_pairs(d, cfg, src) ==
    LET d1 == create_stop_words_table(d, cfg)
        d2 == create_blocking_keys(d1, cfg, src)
        d3 == calculate_weights(d2, cfg)
        d4 == find_candidate_pairs(d3, cfg)
    IN  filter_by_threshold(d4, cfg)

\* run_step_1 from identify_connected_components on
run_step_1_in_order(d5, cfg, src, edges) ==
    create_prime_table(
        [d5 EXCEPT !.clusters = components_in_order(edges),
                   !.exists = @ \cup {"clusters"}],
        cfg, src)

----------------------------------------------------------------------------
(* Step 2: inference.py *)

\* the tables a step reads must exist, or DuckDB raises a catalog error
Step1Tables ==
    {"stop_words", "blocking_keys", "weights", "candidate_pairs",
     "filtered_pairs", "clusters", "prime"}
Step2Tables ==
    {"new_record_tokens", "inference_candidates", "ranked_matches",
     "inferred_matches", "inference_results"}
Step3Tables ==
    {"unassigned_blocking_keys", "unassigned_weights",
     "unassigned_candidate_pairs", "unassigned_filtered_pairs",
     "unassigned_clusters", "new_clusters"}

\* CREATE OR REPLACE TABLE blocking_keys: the tokens of the new records
\* replace the index of the source table
tokenize_new_records_into_index(d, cfg, new_records) ==
    [d EXCEPT !.new_record_tokens =
                  blocking_keys_of(new_records, cfg, d.stop_words),
              !.blocking_keys =
                  blocking_keys_of(new_records, cfg, d.stop_words),
              !.exists = @ \cup {"new_record_tokens"}]

tokenize_new_records(d, cfg, new_records) ==
    [d EXCEPT !.new_record_tokens =
                  blocking_keys_of(new_records, cfg, d.stop_words),
              !.exists = @ \cup {"new_record_tokens"}]

\* new_record_tokens JOIN blocking_keys JOIN weights JOIN prime
\* WHERE pt.cluster_id IS NOT NULL GROUP BY query, reference, cluster
candidates_of(nrt, bk, tw, prime) ==
    LET qtoks(q) == {k.token : k \in {x \in nrt : x.record_id = q}}
        rtoks(r) == {k.token : k \in {x \in bk : x.record_id = r}}
        shared(q, r) == (qtoks(q) \cap rtoks(r)) \cap DOMAIN tw
        G == {g \in {k.record_id : k \in nrt} \X {p \in prime : p.cluster_id # NullId} :
                 shared(g[1], g[2].id) # {}}
    IN  {[query_id |-> g[1],
          prime_record_id |-> g[2].id,
          prime_cluster_id |-> g[2].cluster_id,
          similarity_score |-> SumOver(shared(g[1], g[2].id), tw)] : g \in G}

find_candidates(d, cfg) ==
    [d EXCEPT !.inference_candidates =
                  candidates_of(d.new_record_tokens, d.blocking_keys,
                                d.weights, d.prime),
              !.exists = @ \cup {"inference_candidates"}]

\* ROW_NUMBER() OVER (PARTITION BY query_id ORDER BY similarity_score DESC):
\* rows of equal score are numbered in an order the engine is free to choose.
\* TopRows are the rows that can be numbered 1 for a query.
TopRows(cands, q) ==
    {c \in cands : /\ c.query_id = q
                   /\ \A e \in cands : e.query_id = q =>
                          e.similarity_score <= c.similarity_score}

\* The order the engine takes, as the reference record it puts first among
\* rows of equal score (the lowest id when that record is not among them):
\* every row of TopRows is numbered 1 by one of these orders.
RankFirst(cands, prefer) ==
    [q \in {c.query_id : c \in cands} |->
        LET top == TopRows(cands, q)
        IN  IF \E c \in top : c.prime_record_id = prefer
            THEN CHOOSE c \in top : c.prime_record_id = prefer
            ELSE CHOOSE c \in top :
                     \A e \in top : c.prime_record_id <= e.prime_record_id]

RankOrders(cands) ==
    {RankFirst(cands, prefer) : prefer \in {c.prime_record_id : c \in cands}}
        \cup {RankFirst(cands, NullId)}

\* ranked_matches keeps the rows with match_rank = 1, the only ones read later
rank_matches(d, cfg, first) ==
    [d EXCEPT !.ranked_matches = {first[q] : q \in DOMAIN first},
              !.exists = @ \cup {"ranked_matches"}]

\* WHERE similarity_score > threshold: a score equal to the threshold is no match
create_inferred_matches_strict(d, cfg) ==
    [d EXCEPT !.inferred_matches =
                  {[query_id |-> r.query_id,
                    matched_record_id |-> r.prime_record_id,
                    assigned_cluster_id |-> r.prime_cluster_id,
                    similarity_score |-> r.similarity_score] :
                      r \in {x \in d.ranked_matches :
                               x.similarity_score > cfg.similarity_threshold}},
              !.exists = @ \cup {"inferred_matches"}]

create_inferred_matches(d, cfg) ==
    [d EXCEPT !.inferred_matches =
                  {[query_id |-> r.query_id,
                    matched_record_id |-> r.prime_record_id,
                    assigned_cluster_id |-> r.prime_cluster_id,
                    similarity_score |-> r.similarity_score] :
                      r \in {x \in d.ranked_matches :
                               x.similarity_score >= cfg.similarity_threshold}},
              !.exists = @ \cup {"inferred_matches"}]

NullScore == 0 - 1

\* INSERT INTO for CREATE OR REPLACE TABLE: the results of the Infers before
\* stay in the table
create_inference_results_insert_into(d, cfg, new_records) ==
    [d EXCEPT !.inference_results =
                  @ \cup
                  UNION {LET im == {m \in d.inferred_matches : m.query_id = r}
                         IN  IF im = {}
                             THEN {[id |-> r, text |-> new_records[r],
                                    assigned_cluster_id |-> NullId,
                                    matched_record_id |-> NullId,
                                    similarity_score |-> NullScore,
                                    match_status |-> "unmatched"]}
                             ELSE {[id |-> r, text |-> new_records[r],
                                    assigned_cluster_id |-> m.assigned_cluster_id,
                                    matched_record_id |-> m.matched_record_id,
                                    similarity_score |-> m.similarity_score,
                                    match_status |->
                                        IF m.assigned_cluster_id # NullId
                                        THEN "matched" ELSE "unmatched"] :
                                      m \in im} :
                         r \in DOMAIN new_records},
              !.exists = @ \cup {"inference_results"}]

\* new_records nr LEFT JOIN inferred_matches im ON nr.id = im.query_id
\* JOIN for LEFT JOIN: the new records without an inferred match are left out
create_inference_results_inner_join(d, cfg, new_records) ==
    [d EXCEPT !.inference_results =
                  {[id |-> m.query_id, text |-> new_records[m.query_id],
                    assigned_cluster_id |-> m.assigned_cluster_id,
                    matched_record_id |-> m.matched_record_id,
                    similarity_score |-> m.similarity_score,
                    match_status |-> "matched"] :
                      m \in {x \in d.inferred_matches :
                               x.query_id \in DOMAIN new_records}},
              !.exists = @ \cup {"inference_results"}]

create_inference_results(d, cfg, new_records) ==
    [d EXCEPT !.inference_results =
                  UNION {LET im == {m \in d.inferred_matches : m.query_id = r}
                         IN  IF im = {}
                             THEN {[id |-> r, text |-> new_records[r],
                                    assigned_cluster_id |-> NullId,
                                    matched_record_id |-> NullId,
                                    similarity_score |-> NullScore,
                                    match_status |-> "unmatched"]}
                             ELSE {[id |-> r, text |-> new_records[r],
                                    assigned_cluster_id |-> m.assigned_cluster_id,
                                    matched_record_id |-> m.matched_record_id,
                                    similarity_score |-> m.similarity_score,
                                    match_status |->
                                        IF m.assigned_cluster_id # NullId
                                        THEN "matched" ELSE "unmatched"] :
                                      m \in im} :
                         r \in DOMAIN new_records},
              !.exists = @ \cup {"inference_results"}]

\* match_rate = result[1] * 100.0 / result[0] if result[0] > 0 else 0, rounded
\* to two decimals, in hundredths of a percent
match_rate_pct_of(count, total) ==
    IF total > 0 THEN ROUND4(count, total) ELSE 0

\* get_inference_stats taking result[2], the unmatched count, for the rate
get_inference_stats_rate_of_unmatched(d) ==
    LET total == Cardinality(d.inference_results)
        matched == Cardinality({r \in d.inference_results :
                                   r.match_status = "matched"})
        unmatched == Cardinality({r \in d.inference_results :
                                     r.match_status = "unmatched"})
    IN  [total_records |-> total,
         matched |-> matched,
         unmatched |-> unmatched,
         match_rate_pct |-> match_rate_pct_of(unmatched, total)]

get_inference_stats(d) ==
    LET total == Cardinality(d.inference_results)
        matched == Cardinality({r \in d.inference_results :
                                   r.match_status = "matched"})
        unmatched == Cardinality({r \in d.inference_results :
                                     r.match_status = "unmatched"})
    IN  [total_records |-> total,
         matched |-> matched,
         unmatched |-> unmatched,
         match_rate_pct |-> match_rate_pct_of(matched, total)]

\* run_step_2 up to the ranking, whose order is chosen by the engine
run_step_2_candidates(d, cfg, new_records) ==
    find_candidates(tokenize_new_records(d, cfg, new_records), cfg)

\* run_step_2 from the ranking on
run_step_2_ranked(d2, cfg, new_records, first) ==
    LET d3 == rank_matches(d2, cfg, first)
        d4 == create_inferred_matches(d3, cfg)
    IN  create_inference_results(d4, cfg, new_records)

run_step_2(d, cfg, new_records, first) ==
    run_step_2_ranked(run_step_2_candidates(d, cfg, new_records), cfg,
                      new_records, first)

----------------------------------------------------------------------------
(* infer_single_record: inference.py:208-281 *)

\* normalized.split(): the maximal runs of non-whitespace characters, as
\* (position, token) so that a token repeated in the text is listed twice
py_split(s) ==
    LET B == {0, Len(s) + 1} \cup {i \in 1..Len(s) : s[i] \in WhitespaceChars}
    IN  {<<p[1] + 1, SubSeq(s, p[1] + 1, p[2] - 1)>> :
            p \in {q \in B \X B : /\ q[1] + 1 < q[2]
                                  /\ ~\E k \in B : q[1] < k /\ k < q[2]}}

\* re.sub(...).split() for every text of the model, computed once
py_tokenized == [t \in AllTexts |-> py_split(regexp_replace(t))]

\* tokens = [t for t in normalized.split()
\*           if len(t) >= config.min_token_length and t not in config.stop_words]
py_tokens(text, cfg) ==
    {x \in py_tokenized[text] :
        Len(x[2]) >= cfg.min_token_length /\ x[2] \notin cfg.stop_words}

\* the matches CTE: one row per clustered prime row sharing a weighted token;
\* SUM(tw.weight) runs over the list of query tokens, repeats included
matches_of(tokens, bk, tw, prime) ==
    LET hits(r) == {x \in tokens :
                       /\ x[2] \in DOMAIN tw
                       /\ \E k \in bk : k.record_id = r /\ k.token = x[2]}
    IN  {[matched_record_id |-> p.id,
          cluster_id |-> p.cluster_id,
          similarity_score |->
              SumOver(hits(p.id), [x \in hits(p.id) |-> tw[x[2]]])] :
            p \in {y \in prime : y.cluster_id # NullId /\ hits(y.id) # {}}}

\* WHERE similarity_score >= threshold ORDER BY similarity_score DESC LIMIT 5;
\* result[0] is any row of the highest score
top_matches(d, cfg, text_value) ==
    LET rows == {m \in matches_of(py_tokens(text_value, cfg), d.blocking_keys,
                                  d.weights, d.prime) :
                    m.similarity_score >= cfg.similarity_threshold}
    IN  {m \in rows : \A e \in rows : e.similarity_score <= m.similarity_score}

\* the dictionaries infer_single_record can return
infer_single_record(d, cfg, text_value) ==
    IF py_tokens(text_value, cfg) = {} \/ top_matches(d, cfg, text_value) = {}
    THEN {[matched |-> FALSE]}
    ELSE {[matched |-> TRUE,
           assigned_cluster_id |-> m.cluster_id,
           matched_record_id |-> m.matched_record_id,
           similarity_score |-> m.similarity_score] :
             m \in top_matches(d, cfg, text_value)}

----------------------------------------------------------------------------
(* Step 3: cleanup.py *)

identify_unassigned(d, cfg) ==
    [d EXCEPT !.unassigned =
                  {r \in d.inference_results : r.match_status = "unmatched"},
              !.exists = @ \cup {"unassigned"}]

\* no IS NOT NULL / TRIM filter here; string_split(NULL) unnests to no row
create_unassigned_blocking_keys(d, cfg) ==
    [d EXCEPT !.unassigned_blocking_keys =
                  UNION {{[record_id |-> u.id, token |-> t] :
                             t \in sql_tokens(u.text, cfg.min_token_length,
                                              d.stop_words)} :
                         u \in {x \in d.unassigned : x.text # Null}},
              !.exists = @ \cup {"unassigned_blocking_keys"}]

calculate_unassigned_weights(d, cfg) ==
    [d EXCEPT !.unassigned_weights = weights_of(d.unassigned_blocking_keys),
              !.exists = @ \cup {"unassigned_weights"}]

find_unassigned_pairs(d, cfg) ==
    [d EXCEPT !.unassigned_candidate_pairs =
                  pairs_of(d.unassigned_blocking_keys, d.unassigned_weights),
              !.exists = @ \cup {"unassigned_candidate_pairs"}]

filter_unassigned_pairs(d, cfg) ==
    [d EXCEPT !.unassigned_filtered_pairs =
                  filtered_of(d.unassigned_candidate_pairs,
                              cfg.similarity_threshold),
              !.exists = @ \cup {"unassigned_filtered_pairs"}]

identify_unassigned_components(d, cfg) ==
    [d EXCEPT !.unassigned_clusters =
                  IF d.unassigned_filtered_pairs = {}
                  THEN {}
                  ELSE components_of(d.unassigned_filtered_pairs),
              !.exists = @ \cup {"unassigned_clusters"}]

\* cluster_mapping: ROW_NUMBER() OVER (ORDER BY cluster_id) numbers every row
\* of unassigned_clusters, and DISTINCT then keeps every (cluster_id, number)
\* pair: the rows of one cluster_id hold a block of consecutive numbers,
\* whatever order the engine gives to rows of equal cluster_id.
cluster_mapping(uc) ==
    UNION {LET below == Cardinality({x \in uc : x.cluster_id < c})
               upto == Cardinality({x \in uc : x.cluster_id <= c})
           IN  {[old_cluster_id |-> c, new_cluster_id |-> NewId(k)] :
                   k \in (below + 1)..upto} :
           c \in {x.cluster_id : x \in uc}}

\* the JOIN without its ON condition: every record with every new id
generate_new_cluster_ids_cross_join(d, cfg) ==
    [d EXCEPT !.new_clusters =
                  {[record_id |-> x[1].record_id,
                    cluster_id |-> x[2].new_cluster_id] :
                      x \in d.unassigned_clusters
                                \X cluster_mapping(d.unassigned_clusters)},
              !.exists = @ \cup {"new_clusters"}]

\* unassigned_clusters uc JOIN cluster_mapping cm ON uc.cluster_id = cm.old_cluster_id
generate_new_cluster_ids(d, cfg) ==
    [d EXCEPT !.new_clusters =
                  {[record_id |-> x[1].record_id,
                    cluster_id |-> x[2].new_cluster_id] :
                      x \in {y \in d.unassigned_clusters
                                   \X cluster_mapping(d.unassigned_clusters) :
                               y[1].cluster_id = y[2].old_cluster_id}},
              !.exists = @ \cup {"new_clusters"}]

\* UPDATE prime SET cluster_id = nc.cluster_id FROM new_clusters nc
\* WHERE prime.id = nc.record_id: a prime row with several matching rows of
\* new_clusters takes the value of one of them.  UpdateChoices is every choice.
RECURSIVE UpdateChoicesOver(_, _)
UpdateChoicesOver(hit, nc) ==
    IF hit = {} THEN {<<>>}
    ELSE LET p == CHOOSE x \in hit : TRUE
         IN  {f @@ (p :> c) : f \in UpdateChoicesOver(hit \ {p}, nc),
                               c \in {x \in nc : x.record_id = p.id}}

UpdateChoices(d) ==
    UpdateChoicesOver({p \in d.prime :
                          \E nc \in d.new_clusters : nc.record_id = p.id},
                      d.new_clusters)

update_prime_table(d, cfg, pick) ==
    [d EXCEPT !.prime =
                  {IF p \in DOMAIN pick
                   THEN [p EXCEPT !.cluster_id = pick[p].cluster_id]
                   ELSE p : p \in d.prime}]

get_cleanup_stats(d, cfg) ==
    [total_unassigned |-> Cardinality(d.unassigned),
     newly_clustered |-> Cardinality(d.new_clusters),
     new_clusters_created |->
         Cardinality({nc.cluster_id : nc \in d.new_clusters}),
     still_unassigned |->
         Cardinality(d.unassigned) - Cardinality(d.new_clusters)]

\* run_step_3 up to the UPDATE, whose choice of row is the engine's
run_step_3_clusters(d, cfg) ==
    LET d1 == create_unassigned_blocking_keys(identify_unassigned(d, cfg), cfg)
        d2 == calculate_unassigned_weights(d1, cfg)
        d3 == find_unassigned_pairs(d2, cfg)
        d4 == filter_unassigned_pairs(d3, cfg)
        d5 == identify_unassigned_components(d4, cfg)
    IN  generate_new_cluster_ids(d5, cfg)

\* if unassigned_count == 0: return {...}
NoUnassigned(d, cfg) == identify_unassigned(d, cfg).unassigned = {}

NoUnassignedStats ==
    [total_unassigned |-> 0, newly_clustered |-> 0,
     new_clusters_created |-> 0, still_unassigned |-> 0]

run_step_3(d, cfg, pick) ==
    IF NoUnassigned(d, cfg)
    THEN identify_unassigned(d, cfg)
    ELSE update_prime_table(run_step_3_clusters(d, cfg), cfg, pick)

----------------------------------------------------------------------------
(* State *)

VARIABLES
    source,     \* the source table: id -> text
    config,     \* Config: similarity_threshold, stop_words, min_token_length
    db,         \* the tables of the database that a later call reads
    work,       \* the intermediate tables, as the last pipeline run left them
    lastOp,     \* the method called last, whether it raised, what it returned
    history     \* the new-records table of the last Infer, and the ids that
                \* the Infers before it left unmatched, where it is recorded

vars == <<source, config, db, work, lastOp, history>>

\* Tables read by a call other than the one that wrote them, and the set of
\* the names of all the tables that exist.
EmptyDb ==
    [exists |-> {},
     stop_words |-> {},
     blocking_keys |-> {},
     weights |-> <<>>,
     prime |-> {},
     inference_results |-> {}]

\* Tables that every pipeline run replaces (CREATE OR REPLACE) before it reads
\* them.  Their content matters until the next run only; the model keeps the
\* content the last run gave them and holds the others empty.
EmptyWork ==
    [candidate_pairs |-> <<>>,
     filtered_pairs |-> {},
     clusters |-> {},
     new_record_tokens |-> {},
     inference_candidates |-> {},
     ranked_matches |-> {},
     inferred_matches |-> {},
     unassigned |-> {},
     unassigned_blocking_keys |-> {},
     unassigned_weights |-> <<>>,
     unassigned_candidate_pairs |-> <<>>,
     unassigned_filtered_pairs |-> {},
     unassigned_clusters |-> {},
     new_clusters |-> {}]

\* the database a run starts from, and its two parts when the run ends
Open(d) == d @@ EmptyWork
Kept(d) == [f \in DOMAIN EmptyDb |-> d[f]]
Left(d) == [f \in DOMAIN EmptyWork |-> d[f]]

\* The tables of the life-cycle list their rows in the order of TextOrder, so
\* that rows of equal text have adjacent ids.
TextOrder ==
    <<T_ac, T_c, Null, T_abc0, T_aboc, T_oc, T_none, T_blank, T_tab, T_atc,
      T_aac>>
TextRank(t) == CHOOSE i \in DOMAIN TextOrder : TextOrder[i] = t
InTextOrder(f) ==
    \A i, j \in DOMAIN f : i < j => TextRank(f[i]) <= TextRank(f[j])

\* source tables: id -> text
LifeTables == {f \in [SrcIds -> LifeTexts] : InTextOrder(f)}
BuildTables == [SrcIds -> SrcTexts]
RaiseTables == [SrcIds -> RaiseTexts]
WeightTexts == {T_abc0, T_aboc, T_oc}
WeightTables == {f \in [SrcIds -> WeightTexts] : InTextOrder(f)}

\* source and new-record tables with unindexable rows, and the empty table
EdgeTables == {<<>>} \cup {f \in [SrcIds -> EdgeTexts] : InTextOrder(f)}
EdgeNewTables == {<<>>} \cup {f \in [NewIds -> EdgeNewTexts] : InTextOrder(f)}

\* source and new-record tables with rows of whitespace
TabTables == {f \in [SrcIds -> TabTexts] : InTextOrder(f)}
TabNewTables == {f \in [NewIds -> TabNewTexts] : InTextOrder(f)}

\* new-record tables of matching, blank and null rows, and the empty table
ResultTexts == {T_ac, T_blank, Null}
ResultNewTables == {<<>>} \cup {f \in [NewIds -> ResultTexts] : InTextOrder(f)}

\* the new-records table of one record, of id MaxSrc, carrying the text
SingleRecord(text) == [i \in {MaxSrc} |-> text]
SingleTables == {SingleRecord(t) : t \in RepeatTexts}

\* source tables whose rows are in the reverse of the text order, so that the
\* records of the highest ids are the ones that share their tokens
ReverseTables ==
    {f \in [SrcIds -> WeightTexts] :
        \A i, j \in SrcIds : i < j => TextRank(f[i]) >= TextRank(f[j])}

\* source tables of the two texts that share one token only
LatestTables == {f \in ReverseTables : \A i \in SrcIds : f[i] # T_aboc}

\* new-record tables: id -> text
NewTables == {f \in [NewIds -> NewTexts] : InTextOrder(f)}
\* new-record tables of one text
UniformNewTables == {f \in NewTables : \A i, j \in NewIds : f[i] = f[j]}
WeightNewTables == {f \in [NewIds -> WeightTexts] : InTextOrder(f)}

Called(op, ret) == [op |-> op, raised |-> FALSE, ret |-> ret]
Raised(op) == [op |-> op, raised |-> TRUE, ret |-> <<>>]

\* The history of the calls of make_inference. It is recorded only from the
\* initial states that switch it on.
NoHistory == [recorded |-> FALSE, latest |-> <<>>, earlier |-> {}]
EmptyHistory == [recorded |-> TRUE, latest |-> <<>>, earlier |-> {}]

\* the history after an Infer of new_records that found the results `results`
\* of the Infer before it
history_after(h, results, new_records) ==
    IF h.recorded
    THEN [h EXCEPT !.latest = new_records,
                   !.earlier = @ \cup {u.id : u \in {x \in results :
                                           x.match_status = "unmatched"}}]
    ELSE h

InitOver(tables, thresholds) ==
    /\ source \in tables
    /\ \E th \in thresholds :
         config = [similarity_threshold |-> th,
                   stop_words |-> DEFAULT_STOP_WORDS,
                   min_token_length |-> 2]
    /\ db = EmptyDb
    /\ work = EmptyWork
    /\ lastOp = Called("init", <<>>)
    /\ history = NoHistory

InitWith(tables) == InitOver(tables, Thresholds)

\* SpecificAffinity.__init__
Init == InitWith(LifeTables)
InitBuild == InitWith(BuildTables)
InitRaise == InitOver(RaiseTables, RaisedThresholds)
InitConfig ==
    /\ source \in LifeTables
    /\ \E th \in ConfigThresholds, len \in ConfigTokenLengths :
         config = [similarity_threshold |-> th,
                   stop_words |-> DEFAULT_STOP_WORDS,
                   min_token_length |-> len]
    /\ db = EmptyDb
    /\ work = EmptyWork
    /\ lastOp = Called("init", <<>>)
    /\ history = NoHistory
InitEdge == InitOver(EdgeTables, {MinOf(Thresholds)})
InitTab == InitOver(TabTables, {MinOf(Thresholds)})
InitLatest ==
    /\ source \in LatestTables
    /\ config = [similarity_threshold |-> MaxOf(Thresholds),
                 stop_words |-> DEFAULT_STOP_WORDS,
                 min_token_length |-> 2]
    /\ db = EmptyDb
    /\ work = EmptyWork
    /\ lastOp = Called("init", <<>>)
    /\ history = EmptyHistory
InitCollide == InitOver(ReverseTables, {MaxOf(Thresholds)})
InitWeights == InitOver(WeightTables, {MaxOf(Thresholds)})

\* SpecificAffinity.create_prime_table; "rebuild" when the call before it was
\* create_prime_table too
create_prime_table_call ==
    /\ LET d == run_step_1(Open(db), config, source)
       IN  /\ db' = Kept(d)
           /\ work' = Left(d)
           /\ lastOp' = Called(IF lastOp.op \in {"build", "rebuild"}
                               THEN "rebuild" ELSE "build",
                               get_summary_stats(d, config))
    /\ UNCHANGED <<source, config, history>>

\* SpecificAffinity.make_inference
make_inference(new_records) ==
    /\ IF Step1Tables \subseteq db.exists
       THEN LET d2 == run_step_2_candidates(Open(db), config, new_records)
            IN  \E first \in RankOrders(d2.inference_candidates) :
                  LET d == run_step_2_ranked(d2, config, new_records, first)
                  IN  /\ db' = Kept(d)
                      /\ work' = Left(d)
                      /\ lastOp' = Called("infer", get_inference_stats(d))
                      /\ history' = history_after(history,
                                                  db.inference_results,
                                                  new_records)
       ELSE /\ lastOp' = Raised("infer")
            /\ UNCHANGED <<db, work, history>>
    /\ UNCHANGED <<source, config>>

\* SpecificAffinity.match_text
match_text(text) ==
    /\ IF py_tokens(text, config) = {} \/ Step1Tables \subseteq db.exists
       THEN \E r \in infer_single_record(db, config, text) :
              lastOp' = Called("match_text", r)
       ELSE lastOp' = Raised("match_text")
    /\ UNCHANGED <<source, config, db, work, history>>

\* cleanup_unassigned reading a missing inference_results as an empty table
cleanup_unassigned_of_missing_results ==
    /\ LET d == identify_unassigned(Open(db), config)
       IN  /\ db' = Kept(d)
           /\ work' = Left(d)
           /\ lastOp' = Called("reconcile", NoUnassignedStats)
    /\ UNCHANGED <<source, config, history>>

\* SpecificAffinity.cleanup_unassigned
cleanup_unassigned ==
    /\ IF "inference_results" \in db.exists
       THEN IF NoUnassigned(Open(db), config)
            THEN LET d == identify_unassigned(Open(db), config)
                 IN  /\ db' = Kept(d)
                     /\ work' = Left(d)
                     /\ lastOp' = Called("reconcile", NoUnassignedStats)
            ELSE LET d7 == run_step_3_clusters(Open(db), config)
                 IN  \E pick \in UpdateChoices(d7) :
                       LET d == update_prime_table(d7, config, pick)
                       IN  /\ db' = Kept(d)
                           /\ work' = Left(d)
                           /\ lastOp' = Called("reconcile",
                                               get_cleanup_stats(d, config))
       ELSE /\ lastOp' = Raised("reconcile")
            /\ UNCHANGED <<db, work>>
    /\ UNCHANGED <<source, config, history>>

\* SpecificAffinity.set_threshold
set_threshold ==
    /\ \E th \in Thresholds \ {config.similarity_threshold} :
         config' = [config EXCEPT !.similarity_threshold = th]
    /\ lastOp' = Called("set_threshold", <<>>)
    /\ UNCHANGED <<source, db, work, history>>

\* SpecificAffinity.create_prime_table, with the scan order of the source
\* table and the join order of filtered_pairs chosen by the engine
create_prime_table_in_order(rows) ==
    /\ LET src == scanned_source(source, rows)
           d5 == run_step_1_pairs(Open(db), config, src)
       IN  \E edges \in EdgeOrders(d5.filtered_pairs) :
             LET d == run_step_1_in_order(d5, config, src, edges)
             IN  /\ db' = Kept(d)
                 /\ work' = Left(d)
                 /\ lastOp' = Called("build_in_order",
                                     get_summary_stats(d, config))
    /\ UNCHANGED <<source, config, history>>

\* SpecificAffinity.set_threshold, called with a higher threshold
raise_threshold ==
    /\ \E th \in RaisedThresholds :
         /\ th > config.similarity_threshold
         /\ config' = [config EXCEPT !.similarity_threshold = th]
    /\ lastOp' = Called("set_threshold", <<>>)
    /\ UNCHANGED <<source, db, work, history>>

Next ==
    \/ create_prime_table_call
    \/ \E nr \in NewTables : make_inference(nr)
    \/ \E text \in MatchTexts : match_text(text)
    \/ cleanup_unassigned

Spec == Init /\ [][Next]_vars

NextBuild ==
    \/ create_prime_table_call
    \/ set_threshold

SpecBuild == InitBuild /\ [][NextBuild]_vars

NextOrder ==
    \/ create_prime_table_call
    \/ \E rows \in Perms(SrcIds) : create_prime_table_in_order(rows)

SpecOrder == InitBuild /\ [][NextOrder]_vars

NextRaise ==
    \/ create_prime_table_call
    \/ raise_threshold

SpecRaise == InitRaise /\ [][NextRaise]_vars

\* SpecificAffinity.set_threshold, called with any number
set_any_threshold ==
    /\ \E th \in ConfigThresholds \ {config.similarity_threshold} :
         config' = [config EXCEPT !.similarity_threshold = th]
    /\ lastOp' = Called("set_threshold", <<>>)
    /\ UNCHANGED <<source, db, work, history>>

NextConfig ==
    \/ create_prime_table_call
    \/ \E nr \in UniformNewTables : make_inference(nr)
    \/ cleanup_unassigned
    \/ set_any_threshold

SpecConfig == InitConfig /\ [][NextConfig]_vars

NextEdge ==
    \/ create_prime_table_call
    \/ \E nr \in EdgeNewTables : make_inference(nr)
    \/ cleanup_unassigned

SpecEdge == InitEdge /\ [][NextEdge]_vars

NextTab ==
    \/ create_prime_table_call
    \/ \E nr \in TabNewTables : make_inference(nr)
    \/ cleanup_unassigned

SpecTab == InitTab /\ [][NextTab]_vars

NextResults ==
    \/ create_prime_table_call
    \/ \E nr \in ResultNewTables : make_inference(nr)
    \/ cleanup_unassigned

SpecResults == InitOver(LifeTables, {MinOf(Thresholds)}) /\ [][NextResults]_vars

\* SpecificAffinity.add_stop_words
add_stop_words ==
    /\ \E words \in (SUBSET AddedStopWords) \ {{}} :
         config' = [config EXCEPT !.stop_words = @ \cup words]
    /\ lastOp' = Called("add_stop_words", <<>>)
    /\ UNCHANGED <<source, db, work, history>>

NextMatch ==
    \/ create_prime_table_call
    \/ \E nr \in SingleTables : make_inference(nr)
    \/ \E text \in RepeatTexts : match_text(text)
    \/ add_stop_words

SpecMatch == Init /\ [][NextMatch]_vars

NextWeights ==
    \/ create_prime_table_call
    \/ \E nr \in WeightNewTables : make_inference(nr)
    \/ cleanup_unassigned

SpecWeights == InitWeights /\ [][NextWeights]_vars

SpecCollide == InitCollide /\ [][NextWeights]_vars

NextLatest ==
    \/ create_prime_table_call
    \/ \E nr \in WeightNewTables : make_inference(nr)
    \/ cleanup_unassigned

SpecLatest == InitLatest /\ [][NextLatest]_vars

----------------------------------------------------------------------------
(* Properties of Build *)

\* the call that ended last is create_prime_table and it returned
AfterBuild == lastOp.op \in {"build", "rebuild"} /\ ~lastOp.raised

\* the candidate pairs of the last Build that score at or above the threshold
QualifyingPairs ==
    {p \in DOMAIN work.candidate_pairs :
        work.candidate_pairs[p] >= config.similarity_threshold}

\* the records a chain of qualifying pairs leads to from the records of S
RECURSIVE ChainedFrom(_)
ChainedFrom(S) ==
    LET more == S \cup {p[2] : p \in {q \in QualifyingPairs : q[1] \in S}}
                  \cup {p[1] : p \in {q \in QualifyingPairs : q[2] \in S}}
    IN  IF more = S THEN S ELSE ChainedFrom(more)

\* the cluster ids the prime table holds for a record id, NULL left out
ClusterIdsOf(r) ==
    {p.cluster_id : p \in {x \in db.prime : x.id = r}} \ {NullId}

SameCluster(a, b) == ClusterIdsOf(a) \cap ClusterIdsOf(b) # {}

\* C1: after Build, two records have the same non-null cluster_id in the prime
\* table if and only if a chain of candidate pairs, each scoring at or above
\* similarity_threshold, connects them.
C1_ClustersAreComponents ==
    AfterBuild =>
        \A a, b \in SrcIds :
            a # b => (SameCluster(a, b) <=> b \in ChainedFrom({a}))

\* C3: after Build, every cluster_id of the prime table is the minimum of the
\* ids of the records that carry it.
C3_ClusterIdIsMinimum ==
    AfterBuild =>
        \A c \in {p.cluster_id : p \in db.prime} \ {NullId} :
            c = MinOf({p.id : p \in {x \in db.prime : x.cluster_id = c}})

\* a Build that clustered the records of a chain of two qualifying pairs
C3_Witness ==
    /\ AfterBuild
    /\ \E a, b, c \in SrcIds :
         /\ a < b /\ b < c
         /\ <<a, b>> \in QualifyingPairs /\ <<b, c>> \in QualifyingPairs
         /\ ClusterIdsOf(a) # {} /\ ClusterIdsOf(b) # {} /\ ClusterIdsOf(c) # {}

\* C8: after Build, every non-null cluster_id of the prime table is carried by
\* at least two records, and a record that is an endpoint of no qualifying
\* pair has a NULL cluster_id.
C8_NoSingletonCluster ==
    AfterBuild =>
        /\ \A c \in {p.cluster_id : p \in db.prime} \ {NullId} :
             Cardinality({p.id : p \in {x \in db.prime : x.cluster_id = c}}) >= 2
        /\ \A r \in SrcIds :
             (\A p \in QualifyingPairs : p[1] # r /\ p[2] # r)
                 => ClusterIdsOf(r) = {}

\* C9: a Build that directly follows a Build, on the same source table and
\* configuration, leaves the prime table and the weights table as they were.
C9_BuildIdempotent ==
    [][(AfterBuild /\ lastOp'.op = "rebuild")
          => (db'.prime = db.prime /\ db'.weights = db.weights)]_vars

\* a second Build in a row, on a source table that Build clusters
C9_Witness ==
    /\ lastOp.op = "rebuild"
    /\ \E p \in db.prime : p.cluster_id # NullId
    /\ db.weights # <<>>

----------------------------------------------------------------------------
(* Properties of the life-cycle: Build, Infer, Reconcile *)

AfterInfer == lastOp.op = "infer" /\ ~lastOp.raised
AfterReconcile == lastOp.op = "reconcile" /\ ~lastOp.raised

\* a table of (key, cluster_id) rows holds one cluster id per key
OneClusterPerRecord(rows) ==
    \A x, y \in rows : x[1] = y[1] => x[2] = y[2]

\* C2: after any Build and after any Reconcile, the clusters table, the
\* new_clusters table and the prime table hold at most one cluster id for a
\* record id.
C2_OneClusterPerRecord ==
    (AfterBuild \/ AfterReconcile) =>
        /\ OneClusterPerRecord({<<c.record_id, c.cluster_id>> : c \in work.clusters})
        /\ OneClusterPerRecord({<<c.record_id, c.cluster_id>> :
                                   c \in work.new_clusters})
        /\ OneClusterPerRecord({<<p.id, p.cluster_id>> : p \in db.prime})

\* a Reconcile that made two new clusters and wrote one into the prime table
C2_Witness ==
    /\ AfterReconcile
    /\ Cardinality({c.cluster_id : c \in work.new_clusters}) >= 2
    /\ \E p \in db.prime : IsNewId(p.cluster_id)

\* the reference records that are match targets, and the score of a query
\* text against one of them
ClusteredReferences == {p \in db.prime : p.cluster_id # NullId}
ReferenceTokens(r) ==
    {k.token : k \in {x \in db.blocking_keys : x.record_id = r}}
QueryTokens(text) ==
    IF IsIndexable(text)
    THEN sql_tokens(text, config.min_token_length, db.stop_words)
    ELSE {}
SharedTokens(text, r) == QueryTokens(text) \cap ReferenceTokens(r)
WeightOf(t) == IF t \in DOMAIN db.weights THEN db.weights[t] ELSE 0
ScoreAgainst(text, r) ==
    SumOver(SharedTokens(text, r), [t \in SharedTokens(text, r) |-> WeightOf(t)])
IsHighest(text, p) ==
    \A q \in ClusteredReferences :
        ScoreAgainst(text, q.id) <= ScoreAgainst(text, p.id)

\* C4: after Infer, a query record is 'matched' if and only if its highest
\* score against a reference record with a non-null cluster_id is at or above
\* similarity_threshold; a matched record has the cluster_id of a clustered
\* reference record of that highest score; the reference record it is matched
\* to is clustered; a query that shares no token with a clustered reference
\* record is 'unmatched'.
C4_MatchedIffTopScoreReachesThreshold ==
    AfterInfer =>
        \A r \in db.inference_results :
            /\ (r.match_status = "matched") <=>
                   \E p \in ClusteredReferences :
                       ScoreAgainst(r.text, p.id) >= config.similarity_threshold
            /\ r.match_status = "matched" =>
                   /\ \E p \in ClusteredReferences :
                          /\ IsHighest(r.text, p)
                          /\ r.assigned_cluster_id = p.cluster_id
                   /\ \E p \in ClusteredReferences : p.id = r.matched_record_id
            /\ (\A p \in ClusteredReferences : SharedTokens(r.text, p.id) = {})
                   => r.match_status = "unmatched"

\* an Infer with a matched record whose score equals the threshold, a record
\* left unmatched below the threshold, and an unclustered reference record
\* that shares a token with a query
C4_Witness ==
    /\ AfterInfer
    /\ \E r \in db.inference_results :
         /\ r.match_status = "matched"
         /\ r.similarity_score = config.similarity_threshold
    /\ \E r \in db.inference_results :
         /\ r.match_status = "unmatched"
         /\ \E p \in ClusteredReferences : SharedTokens(r.text, p.id) # {}
    /\ \E r \in db.inference_results, p \in db.prime :
         p.cluster_id = NullId /\ SharedTokens(r.text, p.id) # {}

\* C5: make_inference and match_text leave the blocking-keys table, the
\* weights table and every cluster_id of the prime table as they were.
C5_InferLeavesBuildTables ==
    [][lastOp'.op \in {"infer", "match_text"}
          => /\ db'.blocking_keys = db.blocking_keys
             /\ db'.weights = db.weights
             /\ {<<p.id, p.cluster_id>> : p \in db'.prime}
                    = {<<p.id, p.cluster_id>> : p \in db.prime}]_vars

\* a match_text that found a match, after an Infer that matched a record
C5_Witness ==
    /\ lastOp.op = "match_text" /\ ~lastOp.raised
    /\ lastOp.ret.matched
    /\ \E r \in db.inference_results : r.match_status = "matched"
    /\ db.weights # <<>>

\* C6: every cluster id a Reconcile generates differs from every cluster id
\* the prime table holds when that Reconcile starts.
C6_NewIdsAreFresh ==
    [][(lastOp'.op = "reconcile" /\ ~lastOp'.raised)
          => {c.cluster_id : c \in work'.new_clusters}
                 \cap {p.cluster_id : p \in db.prime} = {}]_vars

\* C7: after Reconcile, every record of new_clusters is in the prime table
\* with its new cluster id.
C7_NewClustersArePersisted ==
    AfterReconcile =>
        \A c \in work.new_clusters :
            \E p \in db.prime :
                p.id = c.record_id /\ p.cluster_id = c.cluster_id

\* C10: after a Build the prime table holds no cluster id that a Reconcile
\* generated, and a Reconcile that directly follows a Build finds no
\* inference result to act on.
C10_RebuildReplacesAllState ==
    [][/\ AfterBuild' => \A p \in db'.prime : ~IsNewId(p.cluster_id)
       /\ (AfterBuild /\ lastOp'.op = "reconcile")
              => \/ lastOp'.raised
                 \/ /\ lastOp'.ret.total_unassigned = 0
                    /\ db'.prime = db.prime]_vars

----------------------------------------------------------------------------
(* Properties of Build: order, threshold, weights *)

\* the record-to-cluster mapping of the prime table
ClusterMapping(prime) == {<<p.id, p.cluster_id>> : p \in prime}

Clustered(prime) == {p.id : p \in {x \in prime : x.cluster_id # NullId}}

\* a Build of a source table that an earlier Build, at a threshold no higher,
\* has already clustered
BuildAtRaisedThreshold ==
    /\ "prime" \in db.exists
    /\ lastOp'.op \in {"build", "rebuild"}

\* C12: with the corpus, the stop words and min_token_length fixed, a Build
\* at a higher similarity_threshold clusters a subset of the records that a
\* Build at a lower threshold clusters.
C12_ClusteredShrinksWithThreshold ==
    [][BuildAtRaisedThreshold
          => Clustered(db'.prime) \subseteq Clustered(db.prime)]_vars

\* a Build at a raised threshold that clusters fewer records than the Build
\* before it, but still some
C12_Witness ==
    /\ AfterBuild
    /\ Clustered(db.prime) # {}
    /\ \E p \in DOMAIN work.candidate_pairs :
         /\ work.candidate_pairs[p] >= 2000
         /\ work.candidate_pairs[p] < config.similarity_threshold

\* C13: with the corpus, the stop words and min_token_length fixed, the
\* avg_cluster_size a Build reports at a higher similarity_threshold is not
\* above the one reported at a lower threshold; once no cluster is left there
\* is no average.
C13_AvgClusterSizeShrinksWithThreshold ==
    [][BuildAtRaisedThreshold
          => LET before == get_summary_stats(db, config).avg_cluster_size
                 after == lastOp'.ret.avg_cluster_size
             IN  /\ (before # NullAvg /\ after # NullAvg) => after <= before
                 /\ before = NullAvg => after = NullAvg]_vars

\* a Build that reports an average after the threshold was raised past the
\* score of a candidate pair
C13_Witness ==
    /\ AfterBuild
    /\ lastOp.ret.avg_cluster_size # NullAvg
    /\ lastOp.ret.unclustered_records > 0
    /\ \E p \in DOMAIN work.candidate_pairs :
         /\ work.candidate_pairs[p] >= 2000
         /\ work.candidate_pairs[p] < config.similarity_threshold

\* a weights table holds weights between 0 and 1 only
WeightsInUnitInterval(tw) == \A t \in DOMAIN tw : 0 <= tw[t] /\ tw[t] <= Scale

----------------------------------------------------------------------------
(* Properties of the error handling *)

\* no Build has been performed on the database
NeverBuilt == "prime" \notin db.exists

\* C15: an Infer (make_inference or match_text) made when no Build has been
\* performed raises, and creates or changes no table.
C15_InferBeforeBuildRaises ==
    [][(NeverBuilt /\ lastOp'.op \in {"infer", "match_text"})
          => /\ lastOp'.raised
             /\ db' = db
             /\ work' = work]_vars

\* no Infer has been performed on the database
NeverInferred == "inference_results" \notin db.exists

ValidConfig(cfg) ==
    /\ 0 < cfg.similarity_threshold
    /\ cfg.similarity_threshold <= Scale
    /\ cfg.min_token_length >= 1

\* C17: with a similarity_threshold outside (0,1] or a min_token_length below
\* 1, given at construction or through set_threshold, a Build, Infer or
\* Reconcile raises before it creates or modifies any table.
C17_InvalidConfigRaisesBeforeProcessing ==
    [][(/\ ~ValidConfig(config)
        /\ lastOp'.op \in {"build", "rebuild", "infer", "reconcile"})
          => /\ lastOp'.raised
             /\ db' = db
             /\ work' = work]_vars

\* a record of this text, if any, yields no token
Unindexable(text) ==
    \/ ~IsIndexable(text)
    \/ sql_tokens(text, config.min_token_length, config.stop_words) = {}

\* C18: a Build of a source with no indexable record, an Infer of a
\* new-records table with no indexable record, and a Reconcile with no
\* unmatched record or no qualifying pair complete without raising and report
\* no cluster, nothing matched and a match rate of 0.
C18_EmptyInputIsNoError ==
    [][/\ (/\ lastOp'.op \in {"build", "rebuild"}
           /\ \A r \in DOMAIN source : Unindexable(source[r]))
          => /\ ~lastOp'.raised
             /\ lastOp'.ret.total_clusters = 0
             /\ lastOp'.ret.clustered_records = 0
             /\ lastOp'.ret.total_records = Cardinality(DOMAIN source)
             /\ \A p \in db'.prime : p.cluster_id = NullId
       /\ (/\ lastOp'.op = "infer"
           /\ ~NeverBuilt
           /\ \A r \in db'.inference_results : Unindexable(r.text))
          => /\ ~lastOp'.raised
             /\ lastOp'.ret.matched = 0
             /\ lastOp'.ret.match_rate_pct = 0
             /\ lastOp'.ret.unmatched = lastOp'.ret.total_records
       /\ (/\ lastOp'.op = "reconcile"
           /\ ~NeverInferred
           /\ work'.unassigned_filtered_pairs = {})
          => /\ ~lastOp'.raised
             /\ lastOp'.ret.newly_clustered = 0
             /\ lastOp'.ret.new_clusters_created = 0
             /\ db'.prime = db.prime]_vars

\* Build of an empty source, Infer of an empty table, then Reconcile
C18_Witness ==
    /\ AfterReconcile
    /\ source = <<>>
    /\ "prime" \in db.exists /\ db.prime = {}
    /\ "inference_results" \in db.exists /\ db.inference_results = {}
    /\ lastOp.ret.total_unassigned = 0

----------------------------------------------------------------------------
(* Properties of records without tokens *)

\* the text is null, empty after trimming, or normalizes to no token: lower
\* case, other characters to spaces, split on runs of whitespace, short tokens
\* and stop words dropped
NoTokens(text) ==
    \/ text = Null
    \/ {x \in py_tokenized[text] :
           /\ Len(x[2]) >= config.min_token_length
           /\ x[2] \notin config.stop_words} = {}

\* C19: a record whose text is null, empty after trimming or without tokens
\* has no blocking key, is given no cluster by Build or Reconcile, and is never
\* reported matched by Infer.
C19_TokenlessRecordsStayOut ==
    /\ \A r \in DOMAIN source :
         ("prime" \in db.exists /\ NoTokens(source[r]))
            => /\ \A k \in db.blocking_keys : k.record_id # r
               /\ \A p \in db.prime : p.id = r => p.cluster_id = NullId
    /\ \A u \in db.inference_results :
         NoTokens(u.text)
            => /\ u.match_status = "unmatched"
               /\ \A k \in work.unassigned_blocking_keys : k.record_id # u.id
               /\ AfterReconcile
                     => \A c \in work.new_clusters : c.record_id # u.id

----------------------------------------------------------------------------
(* Properties of the inference results *)

\* the new-records tables that tokenize to the new_record_tokens of the step
TokenizedBy(nr) ==
    work'.new_record_tokens
        = tokenize_new_records(Open(db), config, nr).new_record_tokens

\* C20: an Infer leaves exactly one result for every record of the new-records
\* table, a record of null or empty text included and reported unmatched, and
\* returns statistics with matched + unmatched = total_records.
C20_OneResultPerQueryRecord ==
    [][\A nr \in ResultNewTables :
          (~NeverBuilt /\ TokenizedBy(nr) /\ make_inference(nr))
             => /\ ~lastOp'.raised
                /\ \A r \in DOMAIN nr :
                     /\ Cardinality({u \in db'.inference_results :
                                        u.id = r}) = 1
                     /\ ~IsIndexable(nr[r])
                           => \E u \in db'.inference_results :
                                /\ u.id = r
                                /\ u.match_status = "unmatched"
                /\ \A u \in db'.inference_results :
                     /\ u.id \in DOMAIN nr
                     /\ u.match_status \in {"matched", "unmatched"}
                /\ lastOp'.ret.total_records = Cardinality(DOMAIN nr)
                /\ lastOp'.ret.matched + lastOp'.ret.unmatched
                       = lastOp'.ret.total_records]_vars

\* an Infer whose results hold a matched row and a row of null text
C20_Witness ==
    /\ AfterInfer
    /\ \E u \in db.inference_results : u.match_status = "matched"
    /\ \E u \in db.inference_results : u.text = Null
    /\ lastOp.ret.matched > 0
    /\ lastOp.ret.unmatched > 0

----------------------------------------------------------------------------
(* Properties of the ranking *)

\* the inference_results tables that make_inference can leave for a table of
\* new records, and the results match_text can return for a text
InferOutcomes(nr) ==
    LET d2 == run_step_2_candidates(Open(db), config, nr)
    IN  {run_step_2_ranked(d2, config, nr, first).inference_results :
            first \in RankOrders(d2.inference_candidates)}

\* C21: in a Built state an Infer of a given query has one outcome: the same
\* matched reference record and the same assigned cluster id in every run,
\* also when reference records tie for the highest score.
C21_InferDeterministicUnderTies ==
    ~NeverBuilt =>
        /\ \A nr \in NewTables : Cardinality(InferOutcomes(nr)) = 1
        /\ \A text \in MatchTexts :
             Cardinality(infer_single_record(db, config, text)) = 1

----------------------------------------------------------------------------
(* Properties of Reconcile *)

\* the unmatched records a chain of qualifying pairs of the last Reconcile
\* leads to from the records of S
RECURSIVE UnassignedChainedFrom(_)
UnassignedChainedFrom(S) ==
    LET fp == work.unassigned_filtered_pairs
        more == S \cup {p[2] : p \in {q \in fp : q[1] \in S}}
                  \cup {p[1] : p \in {q \in fp : q[2] \in S}}
    IN  IF more = S THEN S ELSE UnassignedChainedFrom(more)

\* the new cluster ids the last Reconcile generated for a record
NewIdsOf(r) ==
    {c.cluster_id : c \in {x \in work.new_clusters : x.record_id = r}}

\* C22: after Reconcile, the unmatched records of one connected component of
\* qualifying pairs carry one and the same new cluster id, and records of
\* different components carry different new cluster ids.
C22_NewIdsAreComponents ==
    AfterReconcile =>
        \A a, b \in {p[1] : p \in work.unassigned_filtered_pairs}
                       \cup {p[2] : p \in work.unassigned_filtered_pairs} :
            /\ Cardinality(NewIdsOf(a)) = 1
            /\ (NewIdsOf(a) = NewIdsOf(b)) <=> (b \in UnassignedChainedFrom({a}))

----------------------------------------------------------------------------
(* Properties of the candidate pairs *)

\* the tokens that the blocking keys bk hold for both records of the pair p
TokensOfBoth(bk, p) ==
    {k.token : k \in {x \in bk : x.record_id = p[1]}}
        \cap {k.token : k \in {x \in bk : x.record_id = p[2]}}

\* a table of candidate pairs over the blocking keys bk and the weights tw:
\* ordered pairs, one row for two records, scored by the tokens of both
CanonicalPairs(cp, bk, tw) ==
    \A p \in DOMAIN cp :
        /\ p[1] < p[2]
        /\ <<p[2], p[1]>> \notin DOMAIN cp
        /\ TokensOfBoth(bk, p) # {}
        /\ TokensOfBoth(bk, p) \subseteq DOMAIN tw
        /\ cp[p] = SumOver(TokensOfBoth(bk, p), tw)

\* C23: every row of candidate_pairs and of unassigned_candidate_pairs has
\* record_id_1 < record_id_2, no two rows hold the same two records, and the
\* score of a row is the sum of the weights of the tokens of both records.
C23_CandidatePairsCanonical ==
    /\ CanonicalPairs(work.candidate_pairs, db.blocking_keys, db.weights)
    /\ CanonicalPairs(work.unassigned_candidate_pairs,
                      work.unassigned_blocking_keys, work.unassigned_weights)

\* a Reconcile whose pairs hold two different scores strictly between 0 and
\* 1, sums of one and of two weights, after a Build that left candidate pairs
C23_Witness ==
    /\ AfterReconcile
    /\ \E p, q \in DOMAIN work.unassigned_candidate_pairs :
         /\ 0 < work.unassigned_candidate_pairs[p]
         /\ work.unassigned_candidate_pairs[p]
                < work.unassigned_candidate_pairs[q]
         /\ work.unassigned_candidate_pairs[q] < Scale
         /\ Cardinality(TokensOfBoth(work.unassigned_blocking_keys, q)) > 2
    /\ \E t \in DOMAIN db.weights : 0 < db.weights[t] /\ db.weights[t] < Scale

----------------------------------------------------------------------------
(* Properties of the weights *)

\* the indexed tokens of the blocking keys bk and the number of records that
\* contain a token
IndexedTokens(bk) == {k.token : k \in bk} \ {<<>>}
RecordsWith(bk, t) == Cardinality({k.record_id : k \in {x \in bk : x.token = t}})

\* every indexed token is in the same number of records: max = min
Degenerate(bk) ==
    \A t, u \in IndexedTokens(bk) : RecordsWith(bk, t) = RecordsWith(bk, u)

\* the weights table tw gives weight 0 to every indexed token of bk
AllWeightsZero(tw, bk) ==
    \A t \in IndexedTokens(bk) : t \in DOMAIN tw /\ tw[t] = 0

\* C24: when all indexed tokens have the same document frequency, the weights
\* table (and the unassigned_weights table) holds weight 0 for every indexed
\* token.
C24_DegenerateWeightsAreZero ==
    /\ ("weights" \in db.exists /\ Degenerate(db.blocking_keys))
          => AllWeightsZero(db.weights, db.blocking_keys)
    /\ (AfterReconcile /\ Degenerate(work.unassigned_blocking_keys))
          => AllWeightsZero(work.unassigned_weights,
                            work.unassigned_blocking_keys)

\* in the weights table tw over the blocking keys bk a token of more records
\* has no higher weight than a token of fewer records, and unless the corpus
\* is degenerate every indexed token has a weight, the most frequent ones 0
\* and the least frequent ones 1
WeightsFallWithFrequency(tw, bk) ==
    /\ \A t, u \in DOMAIN tw :
         RecordsWith(bk, t) > RecordsWith(bk, u) => tw[t] <= tw[u]
    /\ ~Degenerate(bk) =>
         /\ DOMAIN tw = IndexedTokens(bk)
         /\ \A t \in IndexedTokens(bk) :
              /\ (\A u \in IndexedTokens(bk) :
                     RecordsWith(bk, t) >= RecordsWith(bk, u)) => tw[t] = 0
              /\ (\A u \in IndexedTokens(bk) :
                     RecordsWith(bk, t) <= RecordsWith(bk, u)) => tw[t] = Scale

\* C25: within a weights table a token contained in more records never has a
\* higher weight than a token contained in fewer records; when the document
\* frequencies are not all equal the most frequent token has weight 0 and the
\* least frequent weight 1.
C25_WeightsFallWithFrequency ==
    /\ WeightsFallWithFrequency(db.weights, db.blocking_keys)
    /\ AfterReconcile
          => WeightsFallWithFrequency(work.unassigned_weights,
                                      work.unassigned_blocking_keys)

\* a Build whose weights table holds three different weights
C25_Witness ==
    /\ AfterBuild
    /\ \E t, u, v \in DOMAIN db.weights :
         /\ db.weights[t] = 0
         /\ 0 < db.weights[u] /\ db.weights[u] < Scale
         /\ db.weights[v] = Scale
         /\ RecordsWith(db.blocking_keys, t) > RecordsWith(db.blocking_keys, u)
         /\ RecordsWith(db.blocking_keys, u) > RecordsWith(db.blocking_keys, v)

----------------------------------------------------------------------------
(* Properties of Reconcile and the Build tables *)

\* the score rows (query, reference record, score) that find_candidates
\* computes for the new records nr over the tables of d
ScoresOf(d, nr) ==
    {<<c.query_id, c.prime_record_id, c.similarity_score>> :
        c \in run_step_2_candidates(Open(d), config, nr).inference_candidates}

\* the highest score of each query of nr, as (query, score)
TopScoresOf(d, nr) ==
    {<<x[1], x[3]>> : x \in {y \in ScoresOf(d, nr) :
                               \A z \in ScoresOf(d, nr) :
                                   z[1] = y[1] => z[3] <= y[3]}}

\* the ids of the records the inference results report unmatched
UnmatchedIds == {u.id : u \in {x \in db.inference_results :
                                   x.match_status = "unmatched"}}

\* C26: a Reconcile takes its blocking keys, weights and pairs from the
\* unmatched records only and leaves the blocking keys and weights of the
\* Build unchanged, so that an Infer scores every query after the Reconcile
\* as it does before it.
C26_ReconcileLeavesInferScores ==
    [][(lastOp'.op = "reconcile" /\ ~lastOp'.raised)
          => /\ {k.record_id : k \in work'.unassigned_blocking_keys}
                    \subseteq UnmatchedIds
             /\ DOMAIN work'.unassigned_weights
                    \subseteq {k.token : k \in work'.unassigned_blocking_keys}
             /\ \A p \in DOMAIN work'.unassigned_candidate_pairs :
                    p[1] \in UnmatchedIds /\ p[2] \in UnmatchedIds
             /\ db'.blocking_keys = db.blocking_keys
             /\ db'.weights = db.weights
             /\ \A nr \in WeightNewTables :
                    TopScoresOf(db', nr) = TopScoresOf(db, nr)]_vars

----------------------------------------------------------------------------
(* Properties of the tokenizers *)

\* the reference normalizer: lower case, every character that is no letter,
\* digit or whitespace to a space, split on runs of whitespace, tokens shorter
\* than min_token_length and stop words dropped, as a set
NormalizerTokens(text) ==
    IF text = Null THEN {}
    ELSE {x[2] : x \in {y \in py_tokenized[text] :
                          /\ Len(y[2]) >= config.min_token_length
                          /\ y[2] \notin config.stop_words}}

\* the tokens a table of (record_id, token) rows holds for a record
TokensIn(bk, r) == {k.token : k \in {x \in bk : x.record_id = r}}

\* C27: the tokens that Build, batch Infer, Reconcile and match_text use for a
\* text are the tokens of the reference normalizer.
C27_TokenizersAgreeWithReference ==
    /\ "prime" \in db.exists =>
         \A r \in DOMAIN source :
            TokensIn(db.blocking_keys, r) = NormalizerTokens(source[r])
    /\ AfterInfer =>
         \A u \in db.inference_results :
            TokensIn(work.new_record_tokens, u.id) = NormalizerTokens(u.text)
    /\ AfterReconcile =>
         \A u \in work.unassigned :
            TokensIn(work.unassigned_blocking_keys, u.id)
                = NormalizerTokens(u.text)
    /\ \A text \in MatchTexts :
         {x[2] : x \in py_tokens(text, config)} = NormalizerTokens(text)

\* the outcomes (matched, top score) of match_text for a text, and of a batch
\* Infer of the new-records table that holds one record of that text
MatchTextOutcomes(text) ==
    {IF r.matched THEN <<TRUE, r.similarity_score>> ELSE <<FALSE, NullScore>> :
        r \in infer_single_record(db, config, text)}

BatchOutcomes(text) ==
    {<<u.match_status = "matched", u.similarity_score>> :
        u \in UNION InferOutcomes(SingleRecord(text))}

\* C28: in every state after a Build, match_text of a text and a batch Infer
\* of one new record of that text agree on matched or unmatched and on the
\* top similarity score.
C28_MatchTextAgreesWithBatch ==
    ~NeverBuilt =>
        \A text \in RepeatTexts : MatchTextOutcomes(text) = BatchOutcomes(text)

----------------------------------------------------------------------------
(* Properties of Reconcile and the prime table *)

\* the reference records that hold a cluster id given by Build
BuildClustered(prime) ==
    {p \in prime : p.cluster_id # NullId /\ ~IsNewId(p.cluster_id)}

\* C29: a Reconcile leaves every reference record that Build clustered with
\* the cluster id it had, also when an unmatched new record has the id of a
\* reference record.
C29_ReconcileKeepsBuildClusters ==
    [][(lastOp'.op = "reconcile" /\ ~lastOp'.raised)
          => \A p \in BuildClustered(db.prime) : p \in db'.prime]_vars

----------------------------------------------------------------------------
(* Properties of Reconcile after several Infers *)

\* the inference results hold one row for every record of the new-records
\* table of the last Infer, with its text, and no other row
ResultsOfLatest(results, h) ==
    {[id |-> u.id, text |-> u.text] : u \in results}
        = {[id |-> i, text |-> h.latest[i]] : i \in DOMAIN h.latest}

\* the ids of the records that the last Infer reported unmatched
UnmatchedByLatest ==
    {i \in DOMAIN history.latest :
        \E u \in db.inference_results :
            u.id = i /\ u.match_status = "unmatched"}

\* C30: an Infer replaces the inference results of the Infer before it, and a
\* Reconcile takes as unassigned exactly the records that the last Infer
\* reported unmatched: a record that only an earlier Infer left unmatched gets
\* no new cluster id and changes no row of the prime table.
C30_ReconcileActsOnLatestInfer ==
    [][/\ (history.recorded /\ lastOp'.op = "infer" /\ ~lastOp'.raised)
            => ResultsOfLatest(db'.inference_results, history')
       /\ (history.recorded /\ lastOp'.op = "reconcile" /\ ~lastOp'.raised)
            => /\ ResultsOfLatest(db.inference_results, history)
               /\ {u.id : u \in work'.unassigned} = UnmatchedByLatest
               /\ lastOp'.ret.total_unassigned
                      = Cardinality(UnmatchedByLatest)
               /\ \A c \in work'.new_clusters :
                      c.record_id \in UnmatchedByLatest
               /\ \A p \in db.prime :
                      p \notin db'.prime => p.id \in UnmatchedByLatest
               /\ \A i \in history.earlier \ UnmatchedByLatest :
                      /\ \A c \in work'.new_clusters : c.record_id # i
                      /\ \A p \in db.prime : p.id = i => p \in db'.prime]_vars

\* a Reconcile that ran after a second Infer: it found records unassigned,
\* and a record that the first Infer left unmatched, with the records it
\* would have been clustered with, is not among them
C30_Witness ==
    /\ AfterReconcile
    /\ history.recorded
    /\ lastOp.ret.total_unassigned > 0
    /\ \E i, j \in history.earlier \ UnmatchedByLatest : i # j
    /\ \A i \in history.earlier \ UnmatchedByLatest :
           \A c \in work.new_clusters : c.record_id # i

====
